---- MODULE Spec2Model ----
(***************************************************************************)
(* A model of qhtmlparser (src/src/qhtmlparser.cpp, qhtmlparser.h): one    *)
(* QHtmlDocument, the tree libtidy built for it, one QHtmlElement held by  *)
(* the caller, and the record of the last call made.                       *)
(*                                                                         *)
(* Strings whose case matters (attribute values, text) are sequences of    *)
(* code points; tag and attribute names, which the code only compares for  *)
(* equality, are TLA+ strings.  A TidyNode is a node number (0 is the null *)
(* pointer), a TidyDoc is a handle number (0 is the null pointer).         *)
(***************************************************************************)
EXTENDS Integers, Sequences, FiniteSets, TLC

VARIABLES
    document,     \* QHtmlDocumentPrivate::document (a TidyDoc, 0 = null)
    error,        \* QHtmlDocumentPrivate::error
    errorString,  \* QHtmlDocumentPrivate::errorString
    tree,         \* the tree libtidy holds under the handle `document`
    allocated,    \* the TidyDoc handles created and not yet released
    exists,       \* the QHtmlDocument object has not been destroyed
    element,      \* the caller's QHtmlElement: QHtmlElementPrivate {document, node}
    stale,        \* history: the tree `element` points into has been released
    last,         \* the last call made and what it returned
    hist          \* history of the setContent calls made so far

vars == <<document, error, errorString, tree, allocated, exists, element, stale, last, hist>>

----------------------------------------------------------------------------
(* Bounds *)

\* content nodes below <body> in a tree queried under SpecQuery
MaxContent == 3
\* content nodes below <body> in a tree parsed under Spec
MaxDocContent == 1
\* TidyDoc addresses the allocator can hand out
MaxHandles == 2
\* |n| of the ordinal arguments tried
MaxN == 1
\* what tidyErrorCount can say of a parse: no error, or some
ErrorCounts == {0, 1}
\* length of the attribute and criterion values tried under SpecMatch
MaxStrLen == 2

----------------------------------------------------------------------------
(* The tree libtidy builds (tidy.h): nodes 1..n numbered in document order *)

Min(S) == CHOOSE x \in S : \A y \in S : x <= y
Max(S) == CHOOSE x \in S : \A y \in S : y <= x

NoAttrs == <<>>
Kind(type, name, attrs) == [type |-> type, name |-> name, attrs |-> attrs]

\* what tidyParseString always produces: root, doctype, html, head, title, body
SkelParent == <<0, 1, 1, 3, 4, 3>>
SkelKind == << Kind("Root", "", NoAttrs), Kind("DocType", "", NoAttrs),
               Kind("Start", "html", NoAttrs), Kind("Start", "head", NoAttrs),
               Kind("Start", "title", NoAttrs), Kind("Start", "body", NoAttrs) >>
BodyNode == Len(SkelParent)

\* class="a"
ClassA == [name |-> "class", value |-> <<97>>]
\* id="a"
IdA == [name |-> "id", value |-> <<97>>]

\* the nodes the content below <body> is made of
ContentKinds == { Kind("Start", "p", NoAttrs), Kind("Start", "p", <<ClassA, IdA>>),
                  Kind("StartEnd", "br", NoAttrs),
                  Kind("Text", "", NoAttrs), Kind("Comment", "", NoAttrs) }

RECURSIVE IsAncestorOrSelf(_, _, _)
IsAncestorOrSelf(par, a, x) ==
    IF x = a THEN TRUE
    ELSE IF x = 0 THEN FALSE
    ELSE IsAncestorOrSelf(par, a, par[x])

\* a tree as the parser leaves it: document order is pre-order, only elements
\* opened with a start tag hold children, adjacent text is one text node
WellFormed(t) ==
    \A i \in (BodyNode + 1)..t.n :
        /\ t.parent[i] < i
        /\ t.parent[i] >= BodyNode
        /\ t.kind[t.parent[i]].type = "Start"
        /\ IsAncestorOrSelf(t.parent, t.parent[i], i - 1)
        /\ ~(/\ t.kind[i].type = "Text"
             /\ t.kind[i - 1].type = "Text"
             /\ t.parent[i - 1] = t.parent[i])

\* the trees of one more node: the node closes the document order
Extended(t) ==
    { u \in { [n |-> t.n + 1, parent |-> Append(t.parent, p), kind |-> Append(t.kind, kd)] :
                p \in BodyNode..t.n, kd \in ContentKinds } :
        WellFormed(u) }
RECURSIVE TreesOfSize(_)
TreesOfSize(k) ==
    IF k = 0 THEN { [n |-> BodyNode, parent |-> SkelParent, kind |-> SkelKind] }
    ELSE UNION { Extended(t) : t \in TreesOfSize(k - 1) }

\* a frameset document: the parser gives it no <body>
FramesetTree ==
    [n |-> BodyNode, parent |-> SkelParent,
     kind |-> [SkelKind EXCEPT ![BodyNode] = Kind("Start", "frameset", NoAttrs)]]

TreesUpTo(k) == UNION { TreesOfSize(j) : j \in 0..k } \cup {FramesetTree}

Trees == TreesUpTo(MaxContent)
DocTrees == TreesUpTo(MaxDocContent)
NoTree == [n |-> 0, parent |-> <<>>, kind |-> <<>>]

Nodes(t) == 1..t.n

tidyGetParent(t, node) == t.parent[node]
Children(t, node) == { c \in Nodes(t) : t.parent[c] = node }
tidyGetChild(t, node) ==
    IF Children(t, node) = {} THEN 0 ELSE Min(Children(t, node))
tidyGetNext(t, node) ==
    LET later == { c \in Children(t, t.parent[node]) : c > node }
    IN  IF later = {} THEN 0 ELSE Min(later)
tidyGetPrev(t, node) ==
    LET earlier == { c \in Children(t, t.parent[node]) : c < node }
    IN  IF earlier = {} THEN 0 ELSE Max(earlier)
tidyNodeGetType(t, node) == t.kind[node].type
tidyNodeGetName(t, node) == t.kind[node].name
tidyAttrs(t, node) == t.kind[node].attrs
\* the content of a text node: one letter, a different one for every node
tidyTextContent(t, node) == <<96 + node>>
\* tidyNodeGetText on a text node prints its content and ends the line
NewLine == <<10>>
tidyNodeGetText(t, node) == tidyTextContent(t, node) \o NewLine

\* the code points of the names the trees hold
CharsOf(s) ==
    CASE s = "p" -> <<112>>
      [] s = "br" -> <<98, 114>>
      [] s = "html" -> <<104, 116, 109, 108>>
      [] s = "head" -> <<104, 101, 97, 100>>
      [] s = "title" -> <<116, 105, 116, 108, 101>>
      [] s = "body" -> <<98, 111, 100, 121>>
      [] s = "frameset" -> <<102, 114, 97, 109, 101, 115, 101, 116>>
      [] s = "class" -> <<99, 108, 97, 115, 115>>
      [] s = "id" -> <<105, 100>>
      [] OTHER -> <<>>
\* name="value" for every attribute, each after a space
RECURSIVE PrintAttrs(_, _)
PrintAttrs(attrs, i) ==
    IF i > Len(attrs) THEN <<>>
    ELSE <<32>> \o CharsOf(attrs[i].name) \o <<61, 34>> \o attrs[i].value \o <<34>>
            \o PrintAttrs(attrs, i + 1)
\* tidyNodeGetText on any node: the markup of the node and of what is below it
RECURSIVE PrintNode(_, _)
RECURSIVE PrintFrom(_, _)
PrintNode(t, node) ==
    LET type == t.kind[node].type
        name == CharsOf(t.kind[node].name)
        open == <<60>> \o name \o PrintAttrs(t.kind[node].attrs, 1) \o <<62>> \o NewLine
        below == PrintFrom(t, IF Children(t, node) = {} THEN 0 ELSE Min(Children(t, node)))
    IN  CASE type = "Text" -> tidyNodeGetText(t, node)
          [] type = "Comment" -> <<60, 33, 45, 45, 45, 45, 62>> \o NewLine
          [] type = "DocType" -> <<60, 33, 68, 79, 67, 84, 89, 80, 69, 32>> \o CharsOf("html")
                                    \o <<62>> \o NewLine
          [] type = "Root" -> below
          [] type = "StartEnd" -> open
          [] OTHER -> open \o below \o <<60, 47>> \o name \o <<62>> \o NewLine
PrintFrom(t, child) ==
    IF child = 0 THEN <<>>
    ELSE PrintNode(t, child)
            \o PrintFrom(t, LET later == { c \in Children(t, t.parent[child]) : c > child }
                            IN  IF later = {} THEN 0 ELSE Min(later))

tidyGetRoot(t) == 1
FindChildNamed(t, node, name) ==
    LET found == { c \in Children(t, node) : t.kind[c].name = name }
    IN  IF found = {} THEN 0 ELSE Min(found)
tidyGetHtml(t) == FindChildNamed(t, tidyGetRoot(t), "html")
tidyGetHead(t) ==
    IF tidyGetHtml(t) = 0 THEN 0 ELSE FindChildNamed(t, tidyGetHtml(t), "head")
tidyGetBody(t) ==
    IF tidyGetHtml(t) = 0 THEN 0 ELSE FindChildNamed(t, tidyGetHtml(t), "body")

IsStartNode(t, node) == tidyNodeGetType(t, node) \in {"Start", "StartEnd"}

----------------------------------------------------------------------------
(* QString comparisons, on sequences of code points *)

\* Qt::CaseInsensitive compares the case-folded code points
Fold(c) == IF c \in 65..90 THEN c + 32 ELSE c
Sensitivity(caseSensitive, c) == IF caseSensitive THEN c ELSE Fold(c)

\* QString::compare(a, b, cs) == 0
compareEq(a, b, cs) ==
    /\ Len(a) = Len(b)
    /\ \A i \in 1..Len(a) : Sensitivity(cs, a[i]) = Sensitivity(cs, b[i])
startsWith(v, s, cs) ==
    /\ Len(s) <= Len(v)
    /\ compareEq(SubSeq(v, 1, Len(s)), s, cs)
endsWith(v, s, cs) ==
    /\ Len(s) <= Len(v)
    /\ compareEq(SubSeq(v, Len(v) - Len(s) + 1, Len(v)), s, cs)
contains(v, s, cs) ==
    \E i \in 0..(Len(v) - Len(s)) : compareEq(SubSeq(v, i + 1, i + Len(s)), s, cs)
\* QString::trimmed: no white space at either end
WhiteSpace == {9, 10, 11, 12, 13, 32}
RECURSIVE trimmed(_)
trimmed(s) ==
    IF s = <<>> THEN s
    ELSE IF s[1] \in WhiteSpace THEN trimmed(Tail(s))
    ELSE IF s[Len(s)] \in WhiteSpace THEN trimmed(SubSeq(s, 1, Len(s) - 1))
    ELSE s
\* QString::contains(QRegExp(pattern, cs[, QRegExp::Wildcard])): a search.  The
\* patterns tried hold letters only, and such a pattern matches itself alone.
containsRegExp(v, pattern, cs) == contains(v, pattern, cs)

----------------------------------------------------------------------------
(* QHtmlParser::MatchFlags: a QFlags bit mask, as the set of its bits *)

MatchExactly == {}
MatchContains == {1}
MatchStartsWith == {2}
MatchEndsWith == {4}
MatchRegExp == {8}
MatchWildcard == {16}
MatchCaseSensitive == {32}
AllFlagBits == MatchContains \cup MatchStartsWith \cup MatchEndsWith \cup MatchRegExp
                 \cup MatchWildcard \cup MatchCaseSensitive

\* QFlags::testFlag(f): (i & f) == f && (f != 0 || i == f)
testFlag(flags, flag) ==
    /\ (flags \cap flag) = flag
    /\ (flag # {} \/ flags = flag)

\* QHtmlAttributeMatch(name, value, flags)
AttributeMatch(name, value, flags) == [name |-> name, value |-> value, flags |-> flags]

\* a matchAttribute whose StartsWith branch never looks at the end of the value
matchAttribute_StartsWithAlone(value, match) ==
    LET cs == testFlag(match.flags, MatchCaseSensitive)
    IN  IF testFlag(match.flags, MatchExactly)
            THEN compareEq(value, match.value, cs)
        ELSE IF testFlag(match.flags, MatchContains)
            THEN contains(value, match.value, cs)
        ELSE IF testFlag(match.flags, MatchStartsWith)
            THEN startsWith(value, match.value, cs)
        ELSE IF testFlag(match.flags, MatchEndsWith)
            THEN endsWith(value, match.value, cs)
        ELSE IF testFlag(match.flags, MatchRegExp)
            THEN containsRegExp(value, match.value, cs)
        ELSE IF testFlag(match.flags, MatchWildcard)
            THEN containsRegExp(value, match.value, cs)
        ELSE FALSE
matchAttribute(value, match) ==
    LET cs == testFlag(match.flags, MatchCaseSensitive)
    IN  IF testFlag(match.flags, MatchExactly)
            THEN compareEq(value, match.value, cs)
        ELSE IF testFlag(match.flags, MatchContains)
            THEN contains(value, match.value, cs)
        ELSE IF testFlag(match.flags, MatchStartsWith)
            THEN /\ startsWith(value, match.value, cs)
                 /\ (testFlag(match.flags, MatchEndsWith)
                        => endsWith(value, match.value, cs))
        ELSE IF testFlag(match.flags, MatchEndsWith)
            THEN endsWith(value, match.value, cs)
        ELSE IF testFlag(match.flags, MatchRegExp)
            THEN containsRegExp(value, match.value, cs)
        ELSE IF testFlag(match.flags, MatchWildcard)
            THEN containsRegExp(value, match.value, cs)
        ELSE FALSE

\* nodeAttribute: the value of the first attribute called `name`, or null
NullValue == [null |-> TRUE, value |-> <<>>]
RECURSIVE nodeAttributeFrom(_, _, _)
nodeAttributeFrom(attrs, i, name) ==
    IF i > Len(attrs) THEN NullValue
    ELSE IF attrs[i].name = name THEN [null |-> FALSE, value |-> attrs[i].value]
    ELSE nodeAttributeFrom(attrs, i + 1, name)
nodeAttribute(t, node, name) == nodeAttributeFrom(tidyAttrs(t, node), 1, name)

MatchAll == 0
MatchAny == 1

RECURSIVE matchAllFrom(_, _, _, _)
matchAllFrom(t, node, matches, i) ==
    IF i > Len(matches) THEN TRUE
    ELSE LET value == nodeAttribute(t, node, matches[i].name)
         IN  IF value.null \/ ~matchAttribute(value.value, matches[i]) THEN FALSE
             ELSE matchAllFrom(t, node, matches, i + 1)
RECURSIVE matchAnyFrom(_, _, _, _)
matchAnyFrom(t, node, matches, i) ==
    IF i > Len(matches) THEN FALSE
    ELSE LET value == nodeAttribute(t, node, matches[i].name)
         IN  IF ~value.null /\ matchAttribute(value.value, matches[i]) THEN TRUE
             ELSE matchAnyFrom(t, node, matches, i + 1)
\* a matchAttributes whose MatchAny gives up on a criterion naming no attribute
matchAttributes_AnyFailsOnAbsent(t, node, matches, matchType) ==
    IF matchType = MatchAll THEN matchAllFrom(t, node, matches, 1)
    ELSE /\ \A i \in 1..Len(matches) : ~nodeAttribute(t, node, matches[i].name).null
         /\ matchAnyFrom(t, node, matches, 1)
matchAttributes(t, node, matches, matchType) ==
    IF matchType = MatchAll THEN matchAllFrom(t, node, matches, 1)
    ELSE matchAnyFrom(t, node, matches, 1)

----------------------------------------------------------------------------
(* The tree walks *)

RECURSIVE childStartNodeFrom(_, _)
childStartNodeFrom(t, child) ==
    IF child = 0 THEN 0
    ELSE IF IsStartNode(t, child) THEN child
    ELSE childStartNodeFrom(t, tidyGetNext(t, child))
\* the recursive call the loop makes on a child that is no start node
\* (line 107) has its result dropped: it changes nothing
childStartNode(t, node) == childStartNodeFrom(t, tidyGetChild(t, node))

RECURSIVE previousSiblingStartNodeFrom(_, _)
previousSiblingStartNodeFrom(t, sibling) ==
    IF sibling = 0 THEN 0
    ELSE IF IsStartNode(t, sibling) THEN sibling
    ELSE previousSiblingStartNodeFrom(t, tidyGetPrev(t, sibling))
\* a previousSiblingStartNode that looks at the nearest sibling only
previousSiblingStartNode_NoSkip(t, node) ==
    LET sibling == tidyGetPrev(t, node)
    IN  IF sibling # 0 /\ IsStartNode(t, sibling) THEN sibling ELSE 0
previousSiblingStartNode(t, node) ==
    previousSiblingStartNodeFrom(t, tidyGetPrev(t, node))

RECURSIVE nextSiblingStartNodeFrom(_, _)
nextSiblingStartNodeFrom(t, sibling) ==
    IF sibling = 0 THEN 0
    ELSE IF IsStartNode(t, sibling) THEN sibling
    ELSE nextSiblingStartNodeFrom(t, tidyGetNext(t, sibling))
nextSiblingStartNode(t, node) == nextSiblingStartNodeFrom(t, tidyGetNext(t, node))

\* the loop of allStartNodes(node, nodes) from `child` on: what it appends
RECURSIVE allStartNodesFrom(_, _)
allStartNodesFrom(t, child) ==
    IF child = 0 THEN <<>>
    ELSE (IF IsStartNode(t, child) THEN <<child>> ELSE <<>>)
            \o allStartNodesFrom(t, tidyGetChild(t, child))
            \o allStartNodesFrom(t, tidyGetNext(t, child))
\* an allStartNodes that begins with the node it is asked about
allStartNodes_WithSelf(t, node) ==
    (IF IsStartNode(t, node) THEN <<node>> ELSE <<>>)
        \o allStartNodesFrom(t, tidyGetChild(t, node))
allStartNodes(t, node) == allStartNodesFrom(t, tidyGetChild(t, node))

RECURSIVE childStartNodesFrom(_, _)
childStartNodesFrom(t, child) ==
    IF child = 0 THEN <<>>
    ELSE <<child>> \o childStartNodesFrom(t, nextSiblingStartNode(t, child))
\* a childStartNodes that goes on below the children
childStartNodes_Descendants(t, node) ==
    allStartNodes(t, node)
childStartNodes(t, node) == childStartNodesFrom(t, childStartNode(t, node))

RECURSIVE allTextNodesFrom(_, _)
allTextNodesFrom(t, child) ==
    IF child = 0 THEN <<>>
    ELSE (IF tidyNodeGetType(t, child) = "Text" THEN <<child>> ELSE <<>>)
            \o allTextNodesFrom(t, tidyGetChild(t, child))
            \o allTextNodesFrom(t, tidyGetNext(t, child))
allTextNodes(t, node) == allTextNodesFrom(t, tidyGetChild(t, node))

----------------------------------------------------------------------------
(* QHtmlElement: a pair of handles.  `t` is the tree d.node points into. *)

NullElement == [document |-> 0, node |-> 0]
\* a binding that copies the document handle before it tests the node
Bind_DocumentFirst(d, node) == [document |-> d.document, node |-> node]
\* element.d->document = d->document; element.d->node = node, when node is set
Bind(d, node) == IF node # 0 THEN [document |-> d.document, node |-> node] ELSE NullElement
BindAll(d, nodes) == [i \in 1..Len(nodes) |-> Bind(d, nodes[i])]

isNull(d) == d.document = 0 \/ d.node = 0
\* QHtmlElement(other), operator= and operator==
copy(other) == [document |-> other.document, node |-> other.node]
assign(d, other) == [d EXCEPT !.document = other.document, !.node = other.node]
equals(d, other) == other.document = d.document /\ other.node = d.node

parentElement(t, d) ==
    IF d.node = 0 THEN NullElement ELSE Bind(d, tidyGetParent(t, d.node))
nextSibling(t, d) ==
    IF d.node = 0 THEN NullElement ELSE Bind(d, nextSiblingStartNode(t, d.node))
previousSibling(t, d) ==
    IF d.node = 0 THEN NullElement ELSE Bind(d, previousSiblingStartNode(t, d.node))
childElements(t, d) ==
    IF d.node = 0 THEN <<>> ELSE BindAll(d, childStartNodes(t, d.node))
firstChildElement(t, d) ==
    IF d.node = 0 THEN NullElement ELSE Bind(d, childStartNode(t, d.node))
lastChildElement(t, d) ==
    IF d.node = 0 THEN NullElement
    ELSE LET nodes == childStartNodes(t, d.node)
         IN  IF nodes # <<>> THEN Bind(d, nodes[Len(nodes)]) ELSE NullElement

\* QList::at is 0-based: nodes.at(i) is nodes[i + 1]
nthChildElement(t, d, n) ==
    IF n = 0 THEN firstChildElement(t, d)
    ELSE IF d.node = 0 THEN NullElement
    ELSE LET nodes == childStartNodes(t, d.node)
         IN  IF n < 0
                 THEN IF Len(nodes) + n >= 0 THEN Bind(d, nodes[Len(nodes) + n + 1])
                      ELSE NullElement
             ELSE IF n < Len(nodes) - 1 THEN Bind(d, nodes[n + 1])
             ELSE NullElement

\* tidyNodeGetName(node) == name, and matchAttributes where the overload has it
NameMatches(t, node, name) == tidyNodeGetName(t, node) = name
NameAndAttributesMatch(t, node, name, matches, matchType) ==
    /\ tidyNodeGetName(t, node) = name
    /\ matchAttributes(t, node, matches, matchType)

\* an elementsByTagName that searches the whole document for a null element
elementsByTagName_WholeDocumentWhenNull(t, d, name) ==
    LET from == IF d.node = 0 THEN tidyGetRoot(t) ELSE d.node
    IN  BindAll(d, SelectSeq(allStartNodes(t, from), LAMBDA node : NameMatches(t, node, name)))
elementsByTagName(t, d, name) ==
    IF d.node = 0 THEN <<>>
    ELSE BindAll(d, SelectSeq(allStartNodes(t, d.node),
                              LAMBDA node : NameMatches(t, node, name)))
elementsByTagNameMatches(t, d, name, matches, matchType) ==
    IF d.node = 0 THEN <<>>
    ELSE BindAll(d, SelectSeq(allStartNodes(t, d.node),
                  LAMBDA node : NameAndAttributesMatch(t, node, name, matches, matchType)))

\* the foreach of firstElementByTagName from index i on: the first hit, or none
RECURSIVE firstHitFrom(_, _, _, _, _, _)
firstHitFrom(t, nodes, i, name, matches, matchType) ==
    IF i > Len(nodes) THEN 0
    ELSE IF NameAndAttributesMatch(t, nodes[i], name, matches, matchType) THEN nodes[i]
    ELSE firstHitFrom(t, nodes, i + 1, name, matches, matchType)

\* without criteria the test is the name alone: as MatchAll over no criteria
firstElementByTagName(t, d, name) ==
    IF d.node = 0 THEN NullElement
    ELSE Bind(d, firstHitFrom(t, allStartNodes(t, d.node), 1, name, <<>>, MatchAll))
\* a firstElementByTagName that keeps the last hit of the scan
firstElementByTagNameMatches_LastHit(t, d, name, matches, matchType) ==
    LET elements == elementsByTagNameMatches(t, d, name, matches, matchType)
    IN  IF elements # <<>> THEN elements[Len(elements)] ELSE NullElement
firstElementByTagNameMatches(t, d, name, matches, matchType) ==
    IF d.node = 0 THEN NullElement
    ELSE Bind(d, firstHitFrom(t, allStartNodes(t, d.node), 1, name, matches, matchType))

lastElementByTagName(t, d, name) ==
    LET elements == elementsByTagName(t, d, name)
    IN  IF elements # <<>> THEN elements[Len(elements)] ELSE NullElement
lastElementByTagNameMatches(t, d, name, matches, matchType) ==
    LET elements == elementsByTagNameMatches(t, d, name, matches, matchType)
    IN  IF elements # <<>> THEN elements[Len(elements)] ELSE NullElement

\* for (int i = start; i != end; i += inc): the loop from index i with `hits`
RECURSIVE nthHitLoop(_, _, _, _, _, _, _, _, _)
nthHitLoop(t, nodes, i, end, inc, hits, n, name, crit) ==
    IF i = end THEN 0
    ELSE IF NameAndAttributesMatch(t, nodes[i + 1], name, crit.matches, crit.matchType)
        THEN IF hits = n THEN nodes[i + 1]
             ELSE nthHitLoop(t, nodes, i + inc, end, inc, hits + inc, n, name, crit)
    ELSE nthHitLoop(t, nodes, i + inc, end, inc, hits, n, name, crit)

nthHit(t, d, n, name, crit) ==
    LET nodes == allStartNodes(t, d.node)
        start == IF n < 0 THEN Len(nodes) - 1 ELSE 0
        end == IF n < 0 THEN 0 ELSE Len(nodes) - 1
        inc == IF n < 0 THEN -1 ELSE 1
    IN  IF nodes = <<>> THEN NullElement
        ELSE Bind(d, nthHitLoop(t, nodes, start, end, inc, 0, n, name, crit))

NoCriteria == [matches |-> <<>>, matchType |-> MatchAll]
nthElementByTagName(t, d, n, name) ==
    IF n = 0 THEN firstElementByTagName(t, d, name)
    ELSE IF d.node = 0 THEN NullElement
    ELSE nthHit(t, d, n, name, NoCriteria)
nthElementByTagNameMatches(t, d, n, name, matches, matchType) ==
    IF n = 0 THEN firstElementByTagNameMatches(t, d, name, matches, matchType)
    ELSE IF d.node = 0 THEN NullElement
    ELSE nthHit(t, d, n, name, [matches |-> matches, matchType |-> matchType])

tagName(t, d) == IF d.node # 0 THEN tidyNodeGetName(t, d.node) ELSE ""

attributes(t, d) == IF d.node = 0 THEN <<>> ELSE tidyAttrs(t, d.node)
attribute(t, d, name) ==
    IF d.node = 0 THEN <<>>
    ELSE LET value == nodeAttribute(t, d.node, name)
         IN  IF ~value.null THEN value.value ELSE <<>>

\* the foreach of elementById from index i on: the first node whose id is `id`
RECURSIVE firstIdFrom(_, _, _, _)
firstIdFrom(t, nodes, i, id) ==
    IF i > Len(nodes) THEN 0
    ELSE LET value == nodeAttribute(t, nodes[i], "id")
         IN  IF ~value.null /\ value.value = id THEN nodes[i]
             ELSE firstIdFrom(t, nodes, i + 1, id)
\* an elementById that compares the id without regard to case
elementById_IgnoringCase(t, d, id) ==
    LET nodes == IF d.node = 0 THEN <<>> ELSE allStartNodes(t, d.node)
        hits == { i \in 1..Len(nodes) :
                    /\ ~nodeAttribute(t, nodes[i], "id").null
                    /\ compareEq(nodeAttribute(t, nodes[i], "id").value, id, FALSE) }
    IN  IF hits = {} THEN NullElement ELSE Bind(d, nodes[Min(hits)])
elementById(t, d, id) ==
    IF d.node = 0 THEN NullElement
    ELSE Bind(d, firstIdFrom(t, allStartNodes(t, d.node), 1, id))

toString(t, d) ==
    IF d.document = 0 \/ d.node = 0 THEN <<>> ELSE trimmed(PrintNode(t, d.node))

\* what the calls of tidyNodeGetText leave in the buffer, one text node after another
RECURSIVE bufferOf(_, _, _)
bufferOf(t, nodes, i) ==
    IF i > Len(nodes) THEN <<>>
    ELSE tidyNodeGetText(t, nodes[i]) \o bufferOf(t, nodes, i + 1)
\* the foreach with its break: the first text node whose parent is d.node
RECURSIVE firstOwnText(_, _, _, _)
firstOwnText(t, d, nodes, i) ==
    IF i > Len(nodes) THEN <<>>
    ELSE IF tidyGetParent(t, nodes[i]) = d.node THEN tidyNodeGetText(t, nodes[i])
    ELSE firstOwnText(t, d, nodes, i + 1)
\* if (text.endsWith("\n")) text.chop(1)
chopNewLine(s) ==
    IF Len(s) > 0 /\ s[Len(s)] = NewLine[1] THEN SubSeq(s, 1, Len(s) - 1) ELSE s
text(t, d, includeChildElements) ==
    IF d.document = 0 \/ d.node = 0 THEN <<>>
    ELSE LET buffer == IF includeChildElements
                          THEN bufferOf(t, allTextNodes(t, d.node), 1)
                          ELSE firstOwnText(t, d, allTextNodes(t, d.node), 1)
         IN  chopNewLine(buffer)

----------------------------------------------------------------------------
(* QHtmlDocument *)

Handles == 1..MaxHandles
\* what tidy writes to the error buffer when it counts an error
Diagnostic == "line 1 column 1 - Error: <x> is not recognized!"

\* a documentElement that hands out no element once a parse has failed
documentElement_NullOnError ==
    IF document = 0 \/ error THEN NullElement
    ELSE Bind([document |-> document, node |-> 0], tidyGetRoot(tree))
documentElement ==
    IF document = 0 THEN NullElement
    ELSE Bind([document |-> document, node |-> 0], tidyGetRoot(tree))
htmlElement ==
    IF document = 0 THEN NullElement
    ELSE Bind([document |-> document, node |-> 0], tidyGetHtml(tree))
headElement ==
    IF document = 0 THEN NullElement
    ELSE Bind([document |-> document, node |-> 0], tidyGetHead(tree))
bodyElement ==
    IF document = 0 THEN NullElement
    ELSE Bind([document |-> document, node |-> 0], tidyGetBody(tree))
hasError == error
documentIsNull == document = 0

----------------------------------------------------------------------------
(* The record of a call, and the history *)

NoCall == [op |-> "none", self |-> NullElement, n |-> 0, name |-> "",
           crit |-> NoCriteria, flag |-> FALSE, elem |-> NullElement,
           list |-> <<>>, str |-> <<>>, tag |-> "", attrs |-> <<>>, id |-> <<>>,
           ret |-> FALSE, uaf |-> FALSE]

NoHistory == [called |-> FALSE, parsed |-> FALSE, failed |-> FALSE, ret |-> FALSE]

SetContentOps == {"setContent(QString)", "setContent(QByteArray)", "setContent(QIODevice*)"}

----------------------------------------------------------------------------
(* Construction *)

\* QHtmlDocument(), and a default-constructed QHtmlElement
Init ==
    /\ document = 0
    /\ error = FALSE
    /\ errorString = ""
    /\ tree = NoTree
    /\ allocated = {}
    /\ exists = TRUE
    /\ element = NullElement
    /\ stale = FALSE
    /\ last = NoCall
    /\ hist = NoHistory

\* QHtmlDocument(content), parsed without an error
InitQuery ==
    /\ document = 1
    /\ error = FALSE
    /\ errorString = ""
    /\ tree \in Trees
    /\ allocated = {1}
    /\ exists = TRUE
    /\ element = NullElement
    /\ stale = FALSE
    /\ last = NoCall
    /\ hist = [called |-> TRUE, parsed |-> TRUE, failed |-> FALSE, ret |-> TRUE]

\* The caller is single-threaded: it makes one call, takes what the call
\* returned, and only then makes the next one.
Idle == last.op = "none"
Return ==
    /\ ~Idle
    /\ last' = NoCall
    /\ UNCHANGED <<document, error, errorString, tree, allocated, exists, element, stale, hist>>

----------------------------------------------------------------------------
(* setContent and the destructor *)

\* QHtmlDocumentPrivate::setContent.  The parser's answer to the content is the
\* tree t it builds and the errors it counts; tidyCreate returns h, any address
\* that is free once the old document is released.
\* a setContent whose success branch leaves errorString as it was
setContent_KeepsErrorString(t, errors, h) ==
    /\ h \notin allocated \ {document}
    /\ allocated' = (allocated \ {document}) \cup {h}
    /\ document' = h
    /\ tree' = t
    /\ error' = (errors > 0)
    /\ errorString' = IF errors > 0 THEN Diagnostic ELSE errorString
    /\ stale' = (element.node # 0)
    /\ hist' = [called |-> TRUE, parsed |-> TRUE,
                failed |-> hist.failed \/ errors > 0, ret |-> ~(errors > 0)]
\* a setContent that gives the document up again when the parse fails
setContent_ReleasesOnError(t, errors, h) ==
    /\ h \notin allocated \ {document}
    /\ allocated' = IF errors > 0 THEN allocated \ {document}
                    ELSE (allocated \ {document}) \cup {h}
    /\ document' = IF errors > 0 THEN 0 ELSE h
    /\ tree' = IF errors > 0 THEN NoTree ELSE t
    /\ error' = (errors > 0)
    /\ errorString' = IF errors > 0 THEN Diagnostic ELSE ""
    /\ stale' = (element.node # 0)
    /\ hist' = [called |-> TRUE, parsed |-> TRUE,
                failed |-> hist.failed \/ errors > 0, ret |-> ~(errors > 0)]
\* a setContent that creates the new document without releasing the old one
setContent_KeepsTheOldTree(t, errors, h) ==
    /\ h \notin allocated
    /\ allocated' = allocated \cup {h}
    /\ document' = h
    /\ tree' = t
    /\ error' = (errors > 0)
    /\ errorString' = IF errors > 0 THEN Diagnostic ELSE ""
    /\ stale' = (element.node # 0)
    /\ hist' = [called |-> TRUE, parsed |-> TRUE,
                failed |-> hist.failed \/ errors > 0, ret |-> ~(errors > 0)]
setContent(t, errors, h) ==
    /\ h \notin allocated \ {document}
    /\ allocated' = (allocated \ {document}) \cup {h}
    /\ document' = h
    /\ tree' = t
    /\ error' = (errors > 0)
    /\ errorString' = IF errors > 0 THEN Diagnostic ELSE ""
    /\ stale' = (element.node # 0)
    /\ hist' = [called |-> TRUE, parsed |-> TRUE,
                failed |-> hist.failed \/ errors > 0, ret |-> ~(errors > 0)]

SetContentString ==
    /\ Idle /\ exists
    /\ \E t \in DocTrees, errors \in ErrorCounts, h \in Handles :
        /\ setContent(t, errors, h)
        /\ last' = [NoCall EXCEPT !.op = "setContent(QString)", !.ret = ~error']
    /\ UNCHANGED <<exists, element>>

SetContentByteArray ==
    /\ Idle /\ exists
    /\ \E t \in DocTrees, errors \in ErrorCounts, h \in Handles :
        /\ setContent(t, errors, h)
        /\ last' = [NoCall EXCEPT !.op = "setContent(QByteArray)", !.ret = ~error']
    /\ UNCHANGED <<exists, element>>

SetContentDevice ==
    /\ Idle /\ exists
    /\ \E device \in {"null", "open"} :
        IF device # "null"
        THEN \E t \in DocTrees, errors \in ErrorCounts, h \in Handles :
                /\ setContent(t, errors, h)
                /\ last' = [NoCall EXCEPT !.op = "setContent(QIODevice*)", !.ret = ~error']
        ELSE /\ last' = [NoCall EXCEPT !.op = "setContent(QIODevice*)", !.ret = FALSE]
             /\ hist' = [hist EXCEPT !.called = TRUE, !.ret = FALSE]
             /\ UNCHANGED <<document, error, errorString, tree, allocated, stale>>
    /\ UNCHANGED <<exists, element>>

\* ~QHtmlDocument: delete d releases the document
Destroy ==
    /\ Idle /\ exists
    /\ exists' = FALSE
    /\ allocated' = allocated \ {document}
    /\ tree' = NoTree
    /\ stale' = (element.node # 0)
    /\ last' = [NoCall EXCEPT !.op = "~QHtmlDocument"]
    /\ UNCHANGED <<document, error, errorString, element, hist>>

----------------------------------------------------------------------------
(* The calls on the document and on the caller's element *)

DocState == <<document, error, errorString, tree, allocated, exists, hist>>

\* element = document.<accessor>()
Access(op, r) ==
    /\ Idle /\ exists
    /\ element' = r
    /\ stale' = FALSE
    /\ last' = [NoCall EXCEPT !.op = op, !.elem = r]
    /\ UNCHANGED DocState

CallDocumentElement == Access("documentElement", documentElement)
CallHtmlElement == Access("htmlElement", htmlElement)
CallHeadElement == Access("headElement", headElement)
CallBodyElement == Access("bodyElement", bodyElement)

\* A call on an element whose tree was released dereferences freed memory:
\* undefined behaviour, and any node pointer or null may come back.
MaxNode == BodyNode + MaxContent
GarbageElements ==
    {NullElement} \cup { [document |-> element.document, node |-> k] : k \in 1..MaxNode }
ElementOutcomes(r) == IF stale THEN GarbageElements ELSE {r}
ListOutcomes(r) == IF stale THEN { <<>> } \cup { <<g>> : g \in GarbageElements } ELSE {r}
StringOutcomes(r) == IF stale THEN { <<>>, <<97>> } ELSE {r}

\* element = element.<navigation>()
Navigate(op, r) ==
    \E got \in ElementOutcomes(r) :
        /\ element' = got
        /\ stale' = (stale /\ got.node # 0)
        /\ last' = [NoCall EXCEPT !.op = op, !.self = element, !.elem = got, !.uaf = stale]
        /\ UNCHANGED DocState

CallParentElement == Idle /\ Navigate("parentElement", parentElement(tree, element))
CallNextSibling == Idle /\ Navigate("nextSibling", nextSibling(tree, element))
CallPreviousSibling == Idle /\ Navigate("previousSibling", previousSibling(tree, element))
CallFirstChildElement == Idle /\ Navigate("firstChildElement", firstChildElement(tree, element))
CallLastChildElement == Idle /\ Navigate("lastChildElement", lastChildElement(tree, element))

TagNames == {"p", "br"}
Ordinals == (-MaxN)..MaxN
CriteriaTried ==
    { [matches |-> m, matchType |-> mt] :
        m \in { <<>>, <<AttributeMatch("class", <<97>>, MatchExactly)>> },
        mt \in {MatchAll, MatchAny} }

\* a query that returns an element and leaves `element` as it is
QueryElement(call, r) ==
    \E got \in ElementOutcomes(r) :
        /\ last' = [call EXCEPT !.self = element, !.elem = got, !.uaf = stale]
        /\ UNCHANGED <<element, stale>>
        /\ UNCHANGED DocState
QueryList(call, r) ==
    \E got \in ListOutcomes(r) :
        /\ last' = [call EXCEPT !.self = element, !.list = got, !.uaf = stale]
        /\ UNCHANGED <<element, stale>>
        /\ UNCHANGED DocState
QueryString(call, r) ==
    \E got \in StringOutcomes(r) :
        /\ last' = [call EXCEPT !.self = element, !.str = got, !.uaf = stale]
        /\ UNCHANGED <<element, stale>>
        /\ UNCHANGED DocState

QueryTag(call, r) ==
    \E got \in (IF stale THEN {"", "p"} ELSE {r}) :
        /\ last' = [call EXCEPT !.self = element, !.tag = got, !.uaf = stale]
        /\ UNCHANGED <<element, stale>>
        /\ UNCHANGED DocState
QueryAttributes(call, r) ==
    \E got \in (IF stale THEN { <<>>, <<ClassA>> } ELSE {r}) :
        /\ last' = [call EXCEPT !.self = element, !.attrs = got, !.uaf = stale]
        /\ UNCHANGED <<element, stale>>
        /\ UNCHANGED DocState

CallNthChildElement ==
    /\ Idle
    /\ \E n \in Ordinals :
           QueryElement([NoCall EXCEPT !.op = "nthChildElement", !.n = n],
                        nthChildElement(tree, element, n))

CallChildElements ==
    /\ Idle
    /\ QueryList([NoCall EXCEPT !.op = "childElements"], childElements(tree, element))

CallElementsByTagName ==
    /\ Idle
    /\ \E name \in TagNames :
           QueryList([NoCall EXCEPT !.op = "elementsByTagName", !.name = name],
                     elementsByTagName(tree, element, name))

CallElementsByTagNameMatches ==
    /\ Idle
    /\ \E name \in TagNames, crit \in CriteriaTried :
           QueryList([NoCall EXCEPT !.op = "elementsByTagName(matches)", !.name = name,
                                    !.crit = crit],
                     elementsByTagNameMatches(tree, element, name, crit.matches, crit.matchType))

CallFirstElementByTagName ==
    /\ Idle
    /\ \E name \in TagNames :
           QueryElement([NoCall EXCEPT !.op = "firstElementByTagName", !.name = name],
                        firstElementByTagName(tree, element, name))

CallLastElementByTagName ==
    /\ Idle
    /\ \E name \in TagNames :
           QueryElement([NoCall EXCEPT !.op = "lastElementByTagName", !.name = name],
                        lastElementByTagName(tree, element, name))

CallNthElementByTagName ==
    /\ Idle
    /\ \E n \in Ordinals, name \in TagNames :
           QueryElement([NoCall EXCEPT !.op = "nthElementByTagName", !.n = n, !.name = name],
                        nthElementByTagName(tree, element, n, name))

CallNthElementByTagNameMatches ==
    /\ Idle
    /\ \E n \in Ordinals, name \in TagNames, crit \in CriteriaTried :
           QueryElement([NoCall EXCEPT !.op = "nthElementByTagName(matches)", !.n = n,
                                       !.name = name, !.crit = crit],
                        nthElementByTagNameMatches(tree, element, n, name,
                                                   crit.matches, crit.matchType))

CallText ==
    /\ Idle
    /\ \E includeChildElements \in BOOLEAN :
           QueryString([NoCall EXCEPT !.op = "text", !.flag = includeChildElements],
                       text(tree, element, includeChildElements))

CallFirstElementByTagNameMatches ==
    /\ Idle
    /\ \E name \in TagNames, crit \in CriteriaTried :
           QueryElement([NoCall EXCEPT !.op = "firstElementByTagName(matches)", !.name = name,
                                       !.crit = crit],
                        firstElementByTagNameMatches(tree, element, name,
                                                     crit.matches, crit.matchType))

IdsTried == { <<97>>, <<65>> }
CallElementById ==
    /\ Idle
    /\ \E id \in IdsTried :
           QueryElement([NoCall EXCEPT !.op = "elementById", !.id = id],
                        elementById(tree, element, id))

\* element = <the element a lookup has just returned>
CallAssign ==
    /\ last.op \in {"nthChildElement", "elementById", "firstElementByTagName",
                    "lastElementByTagName"}
    /\ element' = assign(element, copy(last.elem))
    /\ stale' = (last.uaf /\ last.elem.node # 0)
    /\ last' = [NoCall EXCEPT !.op = "operator=", !.self = last.elem, !.elem = element']
    /\ UNCHANGED DocState

CallTagName ==
    /\ Idle
    /\ QueryTag([NoCall EXCEPT !.op = "tagName"], tagName(tree, element))

AttributeNames == {"class", "id", "title"}
CallAttribute ==
    /\ Idle
    /\ \E name \in AttributeNames :
           QueryString([NoCall EXCEPT !.op = "attribute", !.name = name],
                       attribute(tree, element, name))

CallAttributes ==
    /\ Idle
    /\ QueryAttributes([NoCall EXCEPT !.op = "attributes"], attributes(tree, element))

CallToString ==
    /\ Idle
    /\ QueryString([NoCall EXCEPT !.op = "toString"], toString(tree, element))

\* matchAttributes(node, matches, matchType) on its own, on the element's node,
\* as a search reaches it for a node of allStartNodes; no attribute is called title
ClassIsA == AttributeMatch("class", <<97>>, MatchExactly)
ClassIsB == AttributeMatch("class", <<98>>, MatchExactly)
TitleIsA == AttributeMatch("title", <<97>>, MatchExactly)
MatchListsTried ==
    { <<>>, <<ClassIsA>>, <<TitleIsA, ClassIsA>>, <<ClassIsA, TitleIsA>>,
      <<ClassIsB, ClassIsA>> }
CallMatchAttributes ==
    /\ Idle
    /\ element.node # 0 /\ ~stale
    /\ \E matches \in MatchListsTried, matchType \in {MatchAll, MatchAny} :
           /\ last' = [NoCall EXCEPT !.op = "matchAttributes", !.self = element,
                          !.crit = [matches |-> matches, matchType |-> matchType],
                          !.ret = matchAttributes(tree, element.node, matches, matchType)]
           /\ UNCHANGED <<element, stale>>
           /\ UNCHANGED DocState

\* matchAttribute(value, match) on its own, as a search reaches it
Letters == {97, 65, 98}
Values == UNION { [1..k -> Letters] : k \in 0..MaxStrLen }
CallMatchAttribute ==
    /\ Idle
    /\ \E value \in Values, criterion \in Values, flags \in SUBSET AllFlagBits :
           /\ last' = [NoCall EXCEPT !.op = "matchAttribute", !.str = value,
                          !.crit = [matches |-> <<AttributeMatch("class", criterion, flags)>>,
                                    matchType |-> MatchAll],
                          !.ret = matchAttribute(value, AttributeMatch("class", criterion, flags))]
           /\ UNCHANGED <<element, stale>>
           /\ UNCHANGED DocState

----------------------------------------------------------------------------
(* The specifications *)

\* binding the caller's element, and reading its text
NextElement ==
    \/ CallDocumentElement
    \/ CallHtmlElement
    \/ CallHeadElement
    \/ CallBodyElement
    \/ CallParentElement
    \/ CallNextSibling
    \/ CallPreviousSibling
    \/ CallFirstChildElement
    \/ CallLastChildElement
    \/ CallText
    \/ Return

\* the searches below the caller's element
NextSearch ==
    \/ CallNthChildElement
    \/ CallChildElements
    \/ CallElementsByTagName
    \/ CallElementsByTagNameMatches
    \/ CallFirstElementByTagName
    \/ CallLastElementByTagName
    \/ CallNthElementByTagName
    \/ CallNthElementByTagNameMatches
    \/ CallFirstElementByTagNameMatches
    \/ CallElementById
    \/ CallAssign
    \/ CallTagName
    \/ CallAttribute
    \/ CallAttributes
    \/ CallToString
    \/ CallMatchAttributes

NextQuery == NextElement \/ NextSearch

Next ==
    \/ SetContentString
    \/ SetContentByteArray
    \/ SetContentDevice
    \/ Destroy
    \/ NextElement

NextMatch == CallMatchAttribute \/ Return

\* a document under any sequence of setContent calls, its destruction, and the
\* calls that bind and read the caller's element
Spec == Init /\ [][Next]_vars

\* every query on a document constructed with content
SpecQuery == InitQuery /\ [][NextQuery]_vars

\* matchAttribute over the values and flags tried
SpecMatch == Init /\ [][NextMatch]_vars

----------------------------------------------------------------------------
(* The claims *)

ElementAt(list, i) == IF 1 <= i /\ i <= Len(list) THEN list[i] ELSE NullElement
AccessorOps == {"documentElement", "htmlElement", "headElement", "bodyElement"}

\* C1: for n < 0, nthElementByTagName(n, name) is the |n|-th match counted from
\* the end of elementsByTagName(name) (index length + n), and null when
\* length + n < 0; so nthElementByTagName(-1, name) is lastElementByTagName(name).
C1_NegativeOrdinalCountsFromTheEnd ==
    (last.op = "nthElementByTagName" /\ last.n < 0) =>
        LET matches == elementsByTagName(tree, last.self, last.name)
        IN  /\ last.elem = ElementAt(matches, Len(matches) + last.n + 1)
            /\ (last.n = -1 => last.elem = lastElementByTagName(tree, last.self, last.name))

\* C2: for n > 0, nthElementByTagName(n, name[, criteria, matchType]) is the
\* element at 0-based index n of elementsByTagName with the same arguments when
\* n is less than its length, the last descendant included, and null otherwise.
C2_PositiveOrdinalIndexesTheMatches ==
    /\ (last.op = "nthElementByTagName" /\ last.n > 0) =>
            last.elem = ElementAt(elementsByTagName(tree, last.self, last.name), last.n + 1)
    /\ (last.op = "nthElementByTagName(matches)" /\ last.n > 0) =>
            last.elem = ElementAt(elementsByTagNameMatches(tree, last.self, last.name,
                                      last.crit.matches, last.crit.matchType), last.n + 1)

\* C3: with C = childElements() of size s, nthChildElement(n) is C[n] for
\* 0 <= n <= s-1, C[s+n] for -s <= n < 0, and null otherwise.
C3_NthChildElementIndexesTheChildren ==
    last.op = "nthChildElement" =>
        LET C == childElements(tree, last.self)
            s == Len(C)
        IN  last.elem = IF 0 <= last.n /\ last.n <= s - 1 THEN C[last.n + 1]
                        ELSE IF -s <= last.n /\ last.n < 0 THEN C[s + last.n + 1]
                        ELSE NullElement

\* C4: matchAttribute under Exactly with CaseSensitive set is true iff the value
\* and the criterion are equal code point for code point, and under no flags at
\* all iff they are equal ignoring case.
SameIgnoringCase(a, b) ==
    /\ Len(a) = Len(b)
    /\ \A i \in 1..Len(a) : Fold(a[i]) = Fold(b[i])
C4_ExactlyComparesWholeValues ==
    last.op = "matchAttribute" =>
        LET match == last.crit.matches[1]
        IN  /\ match.flags = MatchExactly \cup MatchCaseSensitive
                => (last.ret <=> last.str = match.value)
            /\ match.flags = MatchExactly
                => (last.ret <=> SameIgnoringCase(last.str, match.value))

\* C5: text(false) of a non-null element is the content of all the text nodes
\* whose parent is the element, in document order, and of no other node.
RECURSIVE ContentOfAll(_, _, _)
ContentOfAll(t, nodes, i) ==
    IF i > Len(nodes) THEN <<>>
    ELSE tidyTextContent(t, nodes[i]) \o ContentOfAll(t, nodes, i + 1)
OwnTextNodes(t, node) ==
    SelectSeq(allTextNodes(t, node), LAMBDA x : tidyGetParent(t, x) = node)
C5_OwnTextIsAllOwnTextNodes ==
    (last.op = "text" /\ ~last.flag /\ ~isNull(last.self)) =>
        last.str = ContentOfAll(tree, OwnTextNodes(tree, last.self.node), 1)

\* C6: once setContent was called or the document destroyed, every element
\* obtained before is invalid (null), and no call through it reads the released
\* tree.
C6_ReleasedTreeIsNeverRead ==
    /\ stale => isNull(element)
    /\ ~last.uaf

\* C7: after every setContent overload, the value returned is !hasError().
C7_ReturnIsNotHasError ==
    last.op \in SetContentOps => (last.ret <=> ~hasError)

\* C8: after a setContent call that failed, documentElement(), htmlElement(),
\* headElement() and bodyElement() are all null until a later call succeeds.
C8_NoElementAfterFailure ==
    (hist.called /\ ~hist.ret /\ last.op \in AccessorOps) => isNull(last.elem)

\* C8, amended: after a setContent call that failed, an accessor is null only
\* when the document is null (no content was ever parsed) or the tree lacks the
\* node; a failed parse leaves its tree to the accessors, documentElement() is
\* non-null after it.
TreeHolds(op) ==
    CASE op = "documentElement" -> TRUE
      [] op = "htmlElement" -> \E c \in Nodes(tree) : tree.kind[c].name = "html"
      [] op = "headElement" -> \E c \in Nodes(tree) : tree.kind[c].name = "head"
      [] op = "bodyElement" -> \E c \in Nodes(tree) : tree.kind[c].name = "body"
C8_ElementAfterFailureIffTreeHoldsIt ==
    (hist.called /\ ~hist.ret /\ last.op \in AccessorOps) =>
        (isNull(last.elem) <=> (documentIsNull \/ ~TreeHolds(last.op)))
C8_Witness ==
    /\ hist.called /\ ~hist.ret /\ error
    /\ last.op = "documentElement"
    /\ ~isNull(last.elem)

\* C9: whenever hasError() is false, errorString() is empty: the message of a
\* failed parse does not outlive a later successful one.
C9_NoErrorMeansNoErrorString ==
    (exists /\ ~hasError) => errorString = ""
C9_Witness ==
    /\ last.op \in SetContentOps /\ last.ret
    /\ hist.failed
    /\ ~hasError /\ errorString = ""

\* C10: isNull() of the document is true iff no setContent call was ever made.
C10_NullIffNeverCalled ==
    exists => (documentIsNull <=> ~hist.called)

\* C10, amended: isNull() of the document is true iff no setContent call has
\* handed content to the parser (a string, a byte array or a device that is not
\* null); a call with a null device leaves it true, and a parse, failed or not,
\* makes it false for good.
C10_NullIffNeverParsed ==
    exists => (documentIsNull <=> ~hist.parsed)
C10_Witness ==
    /\ exists /\ hist.called /\ ~hist.parsed
    /\ last.op = "setContent(QIODevice*)"
    /\ documentIsNull

\* C11: every non-null element the calls hand out (the caller's element, the
\* element or the list a call returned) is bound to a start node of the
\* document, never to a text, comment, doctype or root node.
BoundToStartNode(d) == isNull(d) \/ IsStartNode(tree, d.node)
C11_EveryElementIsBoundToAStartNode ==
    /\ BoundToStartNode(element)
    /\ BoundToStartNode(last.elem)
    /\ \A i \in 1..Len(last.list) : BoundToStartNode(last.list[i])

\* C12: matchAttributes under MatchAll is true iff every criterion has a
\* same-named attribute on the node, the first of that name, whose value
\* satisfies it (true for no criteria); under MatchAny iff at least one
\* criterion has (false for no criteria), a criterion naming an absent
\* attribute being skipped.
Satisfied(t, node, match) ==
    LET attrs == tidyAttrs(t, node)
        named == { k \in 1..Len(attrs) : attrs[k].name = match.name }
    IN  /\ named # {}
        /\ matchAttribute(attrs[Min(named)].value, match)
C12_MatchAllIsEveryMatchAnyIsSome ==
    last.op = "matchAttributes" =>
        LET matches == last.crit.matches
            node == last.self.node
        IN  IF last.crit.matchType = MatchAll
                THEN last.ret <=> \A i \in 1..Len(matches) : Satisfied(tree, node, matches[i])
                ELSE last.ret <=> \E i \in 1..Len(matches) : Satisfied(tree, node, matches[i])
C12_Witness ==
    /\ last.op = "matchAttributes"
    /\ last.crit.matchType = MatchAny
    /\ last.crit.matches = <<TitleIsA, ClassIsA>>
    /\ nodeAttribute(tree, last.self.node, "title").null
    /\ last.ret

\* C13: if e.nextSibling() is a non-null element s then s.previousSibling() is
\* e, and if e.previousSibling() is a non-null element p then p.nextSibling()
\* is e: text and comment nodes are skipped the same way in both directions.
C13_SiblingsAreSymmetric ==
    /\ (last.op = "nextSibling" /\ ~isNull(last.elem))
            => previousSibling(tree, last.elem) = last.self
    /\ (last.op = "previousSibling" /\ ~isNull(last.elem))
            => nextSibling(tree, last.elem) = last.self
C13_Witness ==
    /\ last.op = "nextSibling"
    /\ ~isNull(last.elem)
    /\ tidyGetNext(tree, last.self.node) # last.elem.node
    /\ ~IsStartNode(tree, tidyGetNext(tree, last.self.node))

\* C14: childElements() is the list of the element's direct children that are
\* start nodes, in sibling order, without any text, comment or doctype child
\* and without grandchildren; firstChildElement() is its head and
\* lastChildElement() its tail, each null when the list is empty.
RECURSIVE Ascending(_)
Ascending(S) ==
    IF S = {} THEN <<>> ELSE <<Min(S)>> \o Ascending(S \ {Min(S)})
StartChildren(t, d) ==
    IF d.node = 0 THEN <<>>
    ELSE BindAll(d, Ascending({ c \in Nodes(t) : t.parent[c] = d.node /\ IsStartNode(t, c) }))
C14_ChildElementsAreTheStartChildren ==
    LET C == StartChildren(tree, last.self)
    IN  /\ last.op = "childElements" => last.list = C
        /\ last.op = "firstChildElement" => last.elem = ElementAt(C, 1)
        /\ last.op = "lastChildElement" => last.elem = ElementAt(C, Len(C))
C14_Witness ==
    /\ last.op = "childElements"
    /\ last.list # <<>>
    /\ \E c \in Nodes(tree) :
           tree.parent[c] = last.self.node /\ tree.kind[c].type \in {"Text", "Comment"}
    /\ \E g \in Nodes(tree) :
           /\ IsStartNode(tree, g)
           /\ tree.parent[g] # 0
           /\ tree.parent[tree.parent[g]] = last.self.node

\* C15: allStartNodes(r) holds every start node that is a proper descendant of
\* r exactly once, in document order, reached through start and other nodes
\* alike, and never r; so elementsByTagName(name) lists all and only the proper
\* descendants of that name, in document order.
StartDescendants(t, r) ==
    Ascending({ x \in Nodes(t) : /\ x # r
                                 /\ IsStartNode(t, x)
                                 /\ IsAncestorOrSelf(t.parent, r, x) })
C15_SubtreeScanIsThePreOrder ==
    (last.op = "elementsByTagName" /\ last.self.node # 0) =>
        LET r == last.self.node
        IN  /\ allStartNodes(tree, r) = StartDescendants(tree, r)
            /\ last.list = BindAll(last.self,
                               SelectSeq(StartDescendants(tree, r),
                                         LAMBDA x : tree.kind[x].name = last.name))
C15_Witness ==
    /\ last.op = "elementsByTagName"
    /\ last.self.node = tidyGetRoot(tree)
    /\ Len(last.list) >= 2
    /\ \E i, j \in 1..Len(last.list) :
           tree.parent[last.list[j].node] = last.list[i].node

\* C16: every navigation, search and extraction call on a null element gives a
\* null element, an empty list or an empty string without reading the tree, and
\* a navigation leaves the caller's element null, so a chain of calls that
\* starts at a null element is null or empty at every link.
NavigationOps ==
    {"parentElement", "nextSibling", "previousSibling", "firstChildElement",
     "lastChildElement"}
ElementOps ==
    NavigationOps \cup
    {"nthChildElement", "childElements", "elementById", "elementsByTagName",
     "elementsByTagName(matches)", "firstElementByTagName",
     "firstElementByTagName(matches)", "lastElementByTagName", "nthElementByTagName",
     "nthElementByTagName(matches)", "tagName", "attribute", "attributes", "text",
     "toString"}
C16_CallsOnANullElementGiveNothing ==
    (last.op \in ElementOps /\ isNull(last.self)) =>
        /\ last.elem = NullElement
        /\ last.list = <<>>
        /\ last.str = <<>>
        /\ last.tag = ""
        /\ last.attrs = <<>>
        /\ ~last.uaf
        /\ last.op \in NavigationOps => element = NullElement
C16_Witness ==
    /\ last.op = "elementsByTagName"
    /\ isNull(last.self)
    /\ document # 0
    /\ elementsByTagName(tree, documentElement, last.name) # <<>>

\* C17: elementById(id) is the first proper descendant in document order whose
\* first attribute called id has a value equal to id, letter case included, and
\* null when there is none; of two descendants with the id, the earlier one.
HasId(t, x, id) ==
    LET attrs == tidyAttrs(t, x)
        ids == { k \in 1..Len(attrs) : attrs[k].name = "id" }
    IN  ids # {} /\ attrs[Min(ids)].value = id
WithId(t, r, id) ==
    { x \in Nodes(t) : /\ x # r
                       /\ IsStartNode(t, x)
                       /\ IsAncestorOrSelf(t.parent, r, x)
                       /\ HasId(t, x, id) }
C17_ElementByIdIsTheFirstWithTheId ==
    (last.op = "elementById" /\ last.self.node # 0) =>
        LET found == WithId(tree, last.self.node, last.id)
        IN  last.elem = IF found = {} THEN NullElement ELSE Bind(last.self, Min(found))
C17_Witness ==
    /\ last.op = "elementById"
    /\ Cardinality(WithId(tree, last.self.node, last.id)) >= 2
    /\ ~isNull(last.elem)

\* C18: firstElementByTagName, with or without criteria, is null iff
\* elementsByTagName with the same arguments is empty and is otherwise the
\* element at index 0 of that list; nthElementByTagName(0, ...) is the same
\* element as firstElementByTagName(...).
C18_FirstIsTheHeadOfTheList ==
    LET plain == elementsByTagName(tree, last.self, last.name)
        matched == elementsByTagNameMatches(tree, last.self, last.name,
                                            last.crit.matches, last.crit.matchType)
    IN  /\ last.op = "firstElementByTagName" =>
                /\ last.elem = ElementAt(plain, 1)
                /\ isNull(last.elem) <=> plain = <<>>
        /\ last.op = "firstElementByTagName(matches)" =>
                /\ last.elem = ElementAt(matched, 1)
                /\ isNull(last.elem) <=> matched = <<>>
        /\ (last.op = "nthElementByTagName" /\ last.n = 0) =>
                /\ last.elem = firstElementByTagName(tree, last.self, last.name)
                /\ last.elem = ElementAt(plain, 1)
        /\ (last.op = "nthElementByTagName(matches)" /\ last.n = 0) =>
                /\ last.elem = firstElementByTagNameMatches(tree, last.self, last.name,
                                    last.crit.matches, last.crit.matchType)
                /\ last.elem = ElementAt(matched, 1)
C18_Witness ==
    /\ last.op = "firstElementByTagName(matches)"
    /\ last.crit.matches # <<>>
    /\ ~isNull(last.elem)
    /\ Len(elementsByTagNameMatches(tree, last.self, last.name,
                                    last.crit.matches, last.crit.matchType)) >= 2
    /\ elementsByTagName(tree, last.self, last.name)[1] # last.elem

\* C19: under StartsWith combined with EndsWith, with or without CaseSensitive,
\* matchAttribute is true iff the value both starts with and ends with the
\* criterion value; under StartsWith alone iff it starts with it, under EndsWith
\* alone iff it ends with it.
SameLetter(a, b, flags) ==
    IF MatchCaseSensitive \subseteq flags THEN a = b ELSE Fold(a) = Fold(b)
Begins(v, c, flags) ==
    /\ Len(c) <= Len(v)
    /\ \A i \in 1..Len(c) : SameLetter(v[i], c[i], flags)
Finishes(v, c, flags) ==
    /\ Len(c) <= Len(v)
    /\ \A i \in 1..Len(c) : SameLetter(v[Len(v) - Len(c) + i], c[i], flags)
C19_StartsWithAndEndsWithNeedsBoth ==
    last.op = "matchAttribute" =>
        LET match == last.crit.matches[1]
            shape == match.flags \ MatchCaseSensitive
            v == last.str
            c == match.value
        IN  /\ shape = MatchStartsWith \cup MatchEndsWith
                => (last.ret <=> Begins(v, c, match.flags) /\ Finishes(v, c, match.flags))
            /\ shape = MatchStartsWith => (last.ret <=> Begins(v, c, match.flags))
            /\ shape = MatchEndsWith => (last.ret <=> Finishes(v, c, match.flags))
C19_Witness ==
    /\ last.op = "matchAttribute"
    /\ last.crit.matches[1].flags = MatchStartsWith \cup MatchEndsWith
    /\ last.crit.matches[1].value # <<>>
    /\ Begins(last.str, last.crit.matches[1].value, {})
    /\ ~Finishes(last.str, last.crit.matches[1].value, {})
    /\ ~last.ret

\* C20: a criterion whose flags combine the shapes Contains, StartsWith,
\* EndsWith, RegExp and Wildcard in any way other than StartsWith with EndsWith
\* is rejected when it is made, so matchAttribute never evaluates one.
ShapeFlags ==
    MatchContains \cup MatchStartsWith \cup MatchEndsWith \cup MatchRegExp \cup MatchWildcard
ConsistentShape(flags) ==
    \/ Cardinality(flags \cap ShapeFlags) <= 1
    \/ flags \cap ShapeFlags = MatchStartsWith \cup MatchEndsWith
C20_InconsistentShapesAreRejected ==
    last.op = "matchAttribute" => ConsistentShape(last.crit.matches[1].flags)

----------------------------------------------------------------------------
(* C21: over any sequence of construction, setContent calls (any overload,
   succeeding or failing) and destruction, at most one tidy document is live
   at a time and it is the one the QHtmlDocument owns; a step releases no
   document but the owned one and creates none but the one it then owns, and
   only a setContent or the destructor does either; once the QHtmlDocument
   is destroyed no document is left live.  A release is therefore always of
   a live document (none is released twice) and every document created is
   released by the next content-bearing setContent or by the destructor
   (none is leaked). *)
C21_OwnedTreeIsTheOnlyLiveTree ==
    /\ Cardinality(allocated) <= 1
    /\ exists => allocated = (IF document = 0 THEN {} ELSE {document})
    /\ ~exists => allocated = {}
C21_ReleasesAndCreatesOnlyTheOwnedTree ==
    /\ allocated \ allocated' \subseteq {document}
    /\ allocated' \ allocated \subseteq {document'}
    /\ allocated' # allocated => last'.op \in SetContentOps \cup {"~QHtmlDocument"}
C21_EveryTreeIsReleasedExactlyOnce ==
    [](C21_OwnedTreeIsTheOnlyLiveTree) /\ [][C21_ReleasesAndCreatesOnlyTheOwnedTree]_vars
\* a setContent has replaced the document the caller's element was taken
\* from: the old document is released and the new one alone is live
C21_Witness ==
    /\ last.op \in SetContentOps
    /\ element.document \notin {0, document}
    /\ element.document \notin allocated
    /\ allocated = {document}

----------------------------------------------------------------------------
(* C22: every element an accessor, a navigation, a search, a copy or an
   assignment produces has its document handle and its node handle both unset
   or both set, so isNull (which tests both) agrees with the test of the node
   alone that the other methods make, and any two null elements (the results
   of failed lookups among them) are equal under operator==. *)
Paired(d) == (d.document = 0) <=> (d.node = 0)
SeqElements(list) == { list[i] : i \in 1..Len(list) }
HandlesAgree(d) ==
    /\ Paired(d) /\ Paired(copy(d)) /\ Paired(assign(NullElement, d))
    /\ isNull(d) <=> d.node = 0
    /\ isNull(d) => equals(d, NullElement)
C22_HandlesAreSetTogether ==
    /\ HandlesAgree(element) /\ HandlesAgree(last.self) /\ HandlesAgree(last.elem)
    /\ \A i \in 1..Len(last.list) : HandlesAgree(last.list[i])
    /\ (isNull(element) /\ isNull(last.elem)) => equals(element, last.elem)
\* a navigation from a bound element fails where another one succeeds: the
\* element returned and the caller's element assigned from it are both null
C22_Witness ==
    /\ last.op = "nextSibling"
    /\ ~isNull(last.self)
    /\ isNull(last.elem)
    /\ isNull(element)
    /\ ~isNull(parentElement(tree, last.self))
    /\ \E d \in SeqElements(childElements(tree, last.self)) : ~isNull(d)

====
